---- MODULE Spec2Model ----
(***************************************************************************)
(* Port-forward sessions, the forwarders registry, the forwards table and  *)
(* the benchmark slot of k9s (internal/views), as a state machine.         *)
(*                                                                         *)
(* Threads: one UI thread, which runs key handlers, dialog callbacks and   *)
(* the jobs queued with QueueUpdate/QueueUpdateDraw one at a time, in FIFO *)
(* order; one goroutine per port-forward (runForward); one goroutine per   *)
(* benchmark (runBenchmark); one timer goroutine per completed benchmark.  *)
(* Every statement of a goroutine that touches shared state is one action. *)
(*                                                                         *)
(* Strings that the code concatenates and splits are sequences of tokens,  *)
(* so that a key built twice (path|co|co) differs from a key built once.   *)
(***************************************************************************)
EXTENDS Integers, Sequences, FiniteSets, TLC

VARIABLES
    forwarders,  \* v.app.forwarders: map fqn -> session
    pf,          \* the k8s.PortForward objects and their runForward goroutine
    queue,       \* jobs handed to QueueUpdate/QueueUpdateDraw, not yet run
    dialog,      \* container view: the <PortForward> form, or NoDialog
    cur,         \* 0: the container view is shown; k > 0: forward view k
    table,       \* rows of the forward view shown (tv.update(v.hydrate()))
    prompt,      \* forward view: the <Confirm> delete modal, or NoPrompt
    bench,       \* v.bench of every forward view (0: nil)
    bs,          \* the benchmark objects and their runBenchmark goroutine
    timers,      \* goroutines waiting 2s before queueing statusReset
    benchCfg,    \* v.app.bench.Benchmarks: Defaults and Containers
    cstate,      \* container view: the STATE cell of every container's row
    cluster,     \* v.app.config.K9s.CurrentCluster
    watch,       \* forward views: the fsnotify watcher, its context and its
                 \* updateBenchConfig goroutine
    podv,        \* the pod view: its page and the contexts of its updaters
    last         \* the step just taken: its thread, its operation, and what it
                 \* wrote to v.app.flash() and to the v.app.status line
                 \* ("": nothing) and to tv.sortCol.index (0: nothing)

vars == <<forwarders, pf, queue, dialog, cur, table, prompt,
          bench, bs, timers, benchCfg, cstate, cluster, watch, podv, last>>

----------------------------------------------------------------------------
(* Bounds of the model *)

MaxSessions == 2
MaxViews == 2
MaxBench == 2
MaxEvents == 2

Sessions == 1..MaxSessions
Views == 1..MaxViews
Benchmarks == 1..MaxBench

(* The pod whose containers are listed, and its containers *)
Pod == <<"ns1", "/", "po1">>
Containers == {"c1", "c2"}

(* The header of the forwards table (initHeader), columns counted from 0 *)
Header == <<"NAMESPACE", "NAME", "CONTAINER", "PORTS", "URL", "C", "N", "AGE">>

ColumnAt(i) == IF i + 1 \in DOMAIN Header THEN Header[i + 1] ELSE ""

\* resource.AllNamespaces, and tv.currentNS of the forwards table
AllNamespaces == ""
currentNS == ""

\* tableView.nameColIndex(): one column further when all namespaces are shown
nameColIndex == IF currentNS = AllNamespaces THEN 1 ELSE 0

\* the col arguments of the sort commands of registerActions, and of init
SortPorts == 2
SortURL == 4
SortInit == 6

(* The pod view: page is the page shown ("gone": another view was          *)
(* injected), upd whether the context of its own updater is live, child    *)
(* whether the context handed to the container view is live, parent        *)
(* whether v.parentCtx is live                                             *)
PodContainers == [page |-> "containers", upd |-> FALSE, child |-> TRUE, parent |-> TRUE]
PodGone == [page |-> "gone", upd |-> FALSE, child |-> FALSE, parent |-> FALSE]

(* The STATE cell of a container row, and the clusters of the kubeconfig *)
ContainerStates == {"Running", "Waiting"}
Clusters == {"A", "B"}

NoDialog == "-"
NoPrompt == <<>>
NoRow == <<>>

----------------------------------------------------------------------------
(* Helpers of the views package *)

\* namespaced(path): split "ns/name"
namespaced(p) == IF Len(p) = 3 THEN <<p[1], p[3]>> ELSE <<"", p[1]>>

\* fqn(ns, name): join with "/"
fqn(ns, n) == IF ns = "" THEN <<n>> ELSE <<ns, "/", n>>

\* fwFQN(po, co): the registry key of a forward
fwFQN(po, co) == po \o <<"|", co>>

\* containerID(path, co): the key of a per-container benchmark override
containerID(path, co) == path \o <<"|", co>>

\* config.DefaultC, config.DefaultN, config.DefaultMethod (package config)
DefaultC == 1
DefaultN == 200
DefaultMethod == "GET"

\* defaultConfig(): the hard-coded benchmark config
defaultConfig == [C |-> DefaultC, N |-> DefaultN, M |-> DefaultMethod]

\* loadConfig that takes the fields of an override as they are, zero or not
loadConfigNoFallback(dc, dn, id, cc) ==
    IF id \notin DOMAIN cc THEN <<dc, dn>> ELSE <<cc[id].C, cc[id].N>>

\* loadConfig(dc, dn, id, cc): C and N shown in the forwards table
loadConfig(dc, dn, id, cc) ==
    IF id \notin DOMAIN cc THEN <<dc, dn>>
    ELSE <<IF cc[id].C # 0 THEN cc[id].C ELSE dc,
           IF cc[id].N # 0 THEN cc[id].N ELSE dn>>

\* benchConfig(cluster): filepath.Join(K9sHome, K9sBench + "-" + cluster + ".yml")
benchConfig(c) == <<"k9s", "/", "bench", "-", c, ".yml">>

\* the files of the watched directory that are written
Files == { benchConfig(c) : c \in Clusters }

----------------------------------------------------------------------------
(* The benchmark config files the process may have loaded *)

Key1 == containerID(Pod, "c1")
Key2 == containerID(fwFQN(Pod, "c1"), "c1")
Override1 == [C |-> 0, N |-> 50, M |-> ""]
Override2 == [C |-> 5, N |-> 0, M |-> "POST"]

BenchConfigs ==
    { [Defaults |-> d, Containers |-> c] :
        d \in { [C |-> 10, N |-> 100], [C |-> DefaultC, N |-> DefaultN] },
        c \in { <<>>, Key1 :> Override1, Key2 :> Override2 } }

----------------------------------------------------------------------------
(* k8s.PortForward objects *)

NoSession ==
    [path |-> <<>>, co |-> "", active |-> FALSE, stopped |-> FALSE,
     pc |-> "new", ret |-> "none", here |-> FALSE]

\* k8s.NewPortForward + pf.Start(path, co, ports) succeeded. here: the
\* container view v that runForward belongs to is the one shown.
NewPortForward(path, co) ==
    [path |-> path, co |-> co, active |-> FALSE, stopped |-> FALSE,
     pc |-> "l204", ret |-> "none", here |-> TRUE]

\* pf.FQN()
FQN(s) == fwFQN(pf[s].path, pf[s].co)

\* pf.SetActive(b)
SetActive(s, b) == [pf EXCEPT ![s].active = b]

\* fw.Stop(): closes the stop channel of the transport and clears active
Stop(s) == [pf EXCEPT ![s].stopped = TRUE, ![s].active = FALSE]

----------------------------------------------------------------------------
(* The watcher of a forward view: pc is the position of updateBenchConfig   *)
(* ("none": no goroutine), file its local variable, canceled the state of  *)
(* the context given to init, added whether w.Add succeeded, closed        *)
(* whether w.Close() was called, ev the events fsnotify holds for w.Events *)

NoWatch ==
    [pc |-> "none", file |-> <<>>, canceled |-> FALSE, added |-> FALSE,
     closed |-> FALSE, ev |-> <<>>]

\* watchK9sDir: fsnotify.NewWatcher(), go updateBenchConfig(...), w.Add(K9sHome);
\* wok is "ok", "newErr" (NewWatcher failed) or "addErr" (w.Add failed)
watchK9sDir(wok) ==
    IF wok = "newErr" THEN NoWatch
    ELSE [NoWatch EXCEPT !.pc = "l352", !.added = (wok = "ok")]

\* appView.inject: cancels the context of the view it replaces
inject(w, v) ==
    IF v # 0 /\ w[v].pc # "none" THEN [w EXCEPT ![v].canceled = TRUE] ELSE w

Job(kind, id, b) == [kind |-> kind, id |-> id, b |-> b]

Step(thr, op, fl, st) ==
    last' = [thr |-> thr, op |-> op, flash |-> fl, status |-> st, sort |-> 0]

\* a step of the UI thread that also sets tv.sortCol.index of the forward view
StepSort(op, fl, index) ==
    last' = [thr |-> "ui", op |-> op, flash |-> fl, status |-> "", sort |-> index]

----------------------------------------------------------------------------
(* forwardView.hydrate: one row per f.Path(); Go iterates the map in any    *)
(* order, so of two forwards of one pod either may be the row that stays.  *)

RowOf(s) ==
    LET nn == namespaced(pf[s].path)
        lc == loadConfig(benchCfg.Defaults.C, benchCfg.Defaults.N,
                         containerID(pf[s].path, pf[s].co), benchCfg.Containers)
    IN  [ns |-> nn[1], na |-> nn[2], co |-> pf[s].co, c |-> lc[1], n |-> lc[2],
         action |-> "New"]

hydrate(fwds) ==
    LET paths == { pf[fwds[k]].path : k \in DOMAIN fwds }
        rows  == { RowOf(fwds[k]) : k \in DOMAIN fwds }
    IN  { t \in [paths -> rows] :
            \A p \in paths : \E k \in DOMAIN fwds :
                pf[fwds[k]].path = p /\ t[p] = RowOf(fwds[k]) }

\* forwardView.getSelectedItem, for the selected row r (NoRow: the header)
getSelectedItem(r) ==
    IF r = NoRow THEN <<>>
    ELSE fwFQN(fqn(table[r].ns, table[r].na), table[r].co)

Selections == {NoRow} \cup DOMAIN table

NoBenchmark ==
    [pc |-> "new", canceled |-> FALSE, view |-> 0, cfg |-> defaultConfig, name |-> <<>>]

----------------------------------------------------------------------------
Init ==
    /\ forwarders = <<>>
    /\ pf = [s \in Sessions |-> NoSession]
    /\ queue = <<>>
    /\ dialog = NoDialog
    /\ cur = 0
    /\ table = <<>>
    /\ prompt = NoPrompt
    /\ bench = [v \in Views |-> 0]
    /\ bs = [b \in Benchmarks |-> NoBenchmark]
    /\ timers = 0
    /\ benchCfg \in BenchConfigs
    /\ cstate = [co \in Containers |-> "Running"]
    /\ cluster = "A"
    /\ watch = [v \in Views |-> NoWatch]
    /\ podv = PodContainers
    /\ last = [thr |-> "ui", op |-> "init", flash |-> "", status |-> "", sort |-> 0]


----------------------------------------------------------------------------
(* The UI thread: container view (internal/views/container.go) *)

Created == { s \in Sessions : pf[s].pc # "new" }
FreeSession == IF Created = Sessions THEN 0 ELSE Cardinality(Created) + 1

\* the container table is redrawn with a new STATE for container co
containerUpdate(co, st) ==
    /\ cur = 0 /\ podv.page = "containers"
    /\ cstate[co] # st
    /\ cstate' = [cstate EXCEPT ![co] = st]
    /\ Step("ui", "containerUpdate", "", "")
    /\ UNCHANGED <<forwarders, pf, queue, dialog, cur, table, prompt,
                   bench, bs, timers, benchCfg, cluster, watch, podv>>

\* containerView.portFwdCmd on the selected container co ("": no row selected).
\* The port cell only prefills the form.
portFwdCmd(co) ==
    /\ cur = 0 /\ podv.page = "containers" /\ dialog = NoDialog
    /\ IF co = ""
       THEN Step("ui", "portFwdCmd", "", "") /\ UNCHANGED dialog
       ELSE IF fwFQN(Pod, co) \in DOMAIN forwarders
       THEN Step("ui", "portFwdCmd", "AlreadyExists", "") /\ UNCHANGED dialog
       ELSE IF cstate[co] # "Running"
       THEN Step("ui", "portFwdCmd", "NotRunning", "") /\ UNCHANGED dialog
       ELSE Step("ui", "portFwdCmd", "", "") /\ dialog' = co
    /\ UNCHANGED <<forwarders, pf, queue, cur, table, prompt,
                   bench, bs, timers, benchCfg, cstate, cluster, watch, podv>>

\* containerView.portForward with the error of pf.Start ignored
portForwardIgnoreErr(ok) ==
    /\ cur = 0 /\ podv.page = "containers" /\ dialog # NoDialog
    /\ FreeSession # 0
    /\ pf' = [pf EXCEPT ![FreeSession] = NewPortForward(Pod, dialog)]
    /\ Step("ui", "portForward", IF ok THEN "" ELSE "StartErr", "")
    /\ UNCHANGED <<forwarders, queue, dialog, cur, table, prompt,
                   bench, bs, timers, benchCfg, cstate, cluster, watch, podv>>

\* containerView.portForward: the OK button of the form; ok: pf.Start returned
\* no error. go v.runForward(pf, fw) starts the goroutine at l204.
portForward(ok) ==
    /\ cur = 0 /\ podv.page = "containers" /\ dialog # NoDialog
    /\ IF ~ok
       THEN /\ Step("ui", "portForward", "StartErr", "")
            /\ UNCHANGED pf
       ELSE /\ FreeSession # 0
            /\ pf' = [pf EXCEPT ![FreeSession] = NewPortForward(Pod, dialog)]
            /\ Step("ui", "portForward", "", "")
    /\ UNCHANGED <<forwarders, queue, dialog, cur, table, prompt,
                   bench, bs, timers, benchCfg, cstate, cluster, watch, podv>>

\* the Cancel button of the form
dialogCancel ==
    /\ cur = 0 /\ podv.page = "containers" /\ dialog # NoDialog
    /\ dialog' = NoDialog
    /\ Step("ui", "dialogCancel", "Canceled", "")
    /\ UNCHANGED <<forwarders, pf, queue, cur, table, prompt,
                   bench, bs, timers, benchCfg, cstate, cluster, watch, podv>>

----------------------------------------------------------------------------
(* The UI thread: pod view (internal/views/pod.go) *)

\* podView.listContainers without the call of v.cancelFn
listContainersNoCancel(ok) ==
    /\ cur = 0 /\ podv.page = "master"
    /\ IF ~ok
       THEN /\ Step("ui", "listContainers", "GetErr", "")
            /\ UNCHANGED podv
       ELSE /\ podv' = [podv EXCEPT !.page = "containers", !.child = podv.parent]
            /\ Step("ui", "listContainers", "", "")
    /\ UNCHANGED <<forwarders, pf, queue, dialog, cur, table, prompt,
                   bench, bs, timers, benchCfg, cstate, cluster, watch>>

\* podView.listContainers, the enterFn of the master page; ok: the informer
\* returned the pod. v.cancelFn() stops the pod updater; the container view
\* is initialised under a context derived from v.parentCtx.
listContainers(ok) ==
    /\ cur = 0 /\ podv.page = "master"
    /\ IF ~ok
       THEN /\ Step("ui", "listContainers", "GetErr", "")
            /\ UNCHANGED podv
       ELSE /\ podv' = [podv EXCEPT !.page = "containers", !.upd = FALSE,
                                     !.child = podv.parent]
            /\ Step("ui", "listContainers", "", "")
    /\ UNCHANGED <<forwarders, pf, queue, dialog, cur, table, prompt,
                   bench, bs, timers, benchCfg, cstate, cluster, watch>>

\* podView.exitFn, called by containerView.backCmd: v.childCancelFn(), the
\* container page is removed, restartUpdates starts the pod updater under a
\* context derived from v.parentCtx
exitFn ==
    /\ cur = 0 /\ podv.page = "containers" /\ dialog = NoDialog
    /\ podv' = [podv EXCEPT !.page = "master", !.child = FALSE, !.upd = podv.parent]
    /\ pf' = [s \in Sessions |-> [pf[s] EXCEPT !.here = FALSE]]
    /\ Step("ui", "exitFn", "", "")
    /\ UNCHANGED <<forwarders, queue, dialog, cur, table, prompt,
                   bench, bs, timers, benchCfg, cstate, cluster, watch>>

----------------------------------------------------------------------------
(* The goroutine of one forward: containerView.runForward *)

\* v.app.QueueUpdateDraw(func() { register ... })
runForwardQueue(s) ==
    /\ pf[s].pc = "l204"
    /\ queue' = Append(queue, Job("register", s, 0))
    /\ pf' = [pf EXCEPT ![s].pc = "l210"]
    /\ Step("pf", "queueRegister", "", "")
    /\ UNCHANGED <<forwarders, dialog, cur, table, prompt,
                   bench, bs, timers, benchCfg, cstate, cluster, watch, podv>>

\* pf.SetActive(true), on the goroutine
runForwardSetActive(s) ==
    /\ pf[s].pc = "l210"
    /\ pf' = [SetActive(s, TRUE) EXCEPT ![s].pc = "l211"]
    /\ Step("pf", "SetActive", "", "")
    /\ UNCHANGED <<forwarders, queue, dialog, cur, table, prompt,
                   bench, bs, timers, benchCfg, cstate, cluster, watch, podv>>

\* f.ForwardPorts() returned an error: v.app.flash().err(err); return
runForwardErr(s) ==
    /\ pf[s].pc = "l211"
    /\ pf' = [pf EXCEPT ![s].pc = "done", ![s].ret = "err"]
    /\ Step("pf", "ForwardPortsErr", "TransportErr", "")
    /\ UNCHANGED <<forwarders, queue, dialog, cur, table, prompt,
                   bench, bs, timers, benchCfg, cstate, cluster, watch, podv>>

\* f.ForwardPorts() returned nil (stop channel closed, or the connection to
\* the pod was lost): v.app.QueueUpdateDraw(func() { remove ... })
runForwardNil(s) ==
    /\ pf[s].pc = "l211"
    /\ queue' = Append(queue, Job("remove", s, 0))
    /\ pf' = [pf EXCEPT ![s].pc = "done", ![s].ret = "nil"]
    /\ Step("pf", "queueRemove", "", "")
    /\ UNCHANGED <<forwarders, dialog, cur, table, prompt,
                   bench, bs, timers, benchCfg, cstate, cluster, watch, podv>>

----------------------------------------------------------------------------
(* The UI thread: forward view (internal/views/forward.go) *)

\* delete(m, k)
MapDelete(m, k) == [x \in DOMAIN m \ {k} |-> m[x]]

\* m[k] = s
MapPut(m, k, s) == [x \in DOMAIN m \cup {k} |-> IF x = k THEN s ELSE m[x]]

\* A forward view that is not shown, holds no benchmark and that no goroutine
\* or queued job refers to is garbage: its number names the next new view.
Referenced(v) ==
    \/ cur = v
    \/ bench[v] # 0
    \/ \E b \in Benchmarks : bs[b].view = v /\ bs[b].pc \in {"run", "called"}
    \/ watch[v].pc \in {"l352", "loop"}
    \/ \E i \in DOMAIN queue : queue[i].kind = "reload" /\ queue[i].id = v

FreeViews == { v \in Views : ~Referenced(v) }
NewView == CHOOSE v \in FreeViews : \A w \in FreeViews : v <= w

\* the PortForward command: newForwardView, then app.inject, which drops the
\* view shown before and calls forwardView.init (watchK9sDir, v.refresh())
gotoForwards(wok) ==
    /\ FreeViews # {}
    /\ cur' = NewView
    /\ watch' = [inject(watch, cur) EXCEPT ![NewView] = watchK9sDir(wok)]
    /\ table' \in hydrate(forwarders)
    /\ dialog' = NoDialog
    /\ pf' = [s \in Sessions |-> [pf[s] EXCEPT !.here = FALSE]]
    /\ prompt' = NoPrompt
    /\ podv' = PodGone
    /\ StepSort("gotoForwards", IF wok = "ok" THEN "" ELSE "WatchErr",
                nameColIndex + SortInit)
    /\ UNCHANGED <<forwarders, queue, bench, bs, timers, benchCfg, cstate, cluster>>

\* forwardView.backCmd: v.cancel is nil; app.inject shows the main view,
\* under a new context
backCmd ==
    /\ cur # 0 /\ prompt = NoPrompt
    /\ cur' = 0
    /\ watch' = inject(watch, cur)
    /\ table' = <<>>
    /\ podv' = PodContainers
    /\ Step("ui", "backCmd", "", "")
    /\ UNCHANGED <<forwarders, pf, queue, dialog, prompt,
                   bench, bs, timers, benchCfg, cstate, cluster>>

\* forwardView.sortColCmd(col, true): tv.sortCol.index, then v.refresh()
sortColCmd(col) ==
    /\ cur # 0 /\ prompt = NoPrompt
    /\ table' \in hydrate(forwarders)
    /\ StepSort("sortColCmd", "", nameColIndex + col)
    /\ UNCHANGED <<forwarders, pf, queue, dialog, cur, prompt,
                   bench, bs, timers, benchCfg, cstate, cluster, watch, podv>>

\* forwardView.deleteCmd on the selected row r, with an empty command buffer:
\* showModal, unless the header is selected
deleteCmd(r) ==
    /\ cur # 0 /\ prompt = NoPrompt
    /\ prompt' = IF getSelectedItem(r) = <<>> THEN NoPrompt ELSE getSelectedItem(r)
    /\ Step("ui", "deleteCmd", "", "")
    /\ UNCHANGED <<forwarders, pf, queue, dialog, cur, table,
                   bench, bs, timers, benchCfg, cstate, cluster, watch, podv>>

\* the OK button of the delete modal, without fw.Stop()
deleteOKNoStop ==
    /\ cur # 0 /\ prompt # NoPrompt
    /\ prompt' = NoPrompt
    /\ IF prompt \notin DOMAIN forwarders
       THEN /\ Step("ui", "deleteOK", "", "")
            /\ UNCHANGED <<forwarders, pf, table>>
       ELSE /\ pf' = pf
            /\ forwarders' = MapDelete(forwarders, prompt)
            /\ table' \in hydrate(forwarders')
            /\ Step("ui", "deleteOK", "Deleted", "")
    /\ UNCHANGED <<queue, dialog, cur, bench, bs, timers, benchCfg, cstate, cluster, watch, podv>>

\* the OK button of the delete modal
deleteOK ==
    /\ cur # 0 /\ prompt # NoPrompt
    /\ prompt' = NoPrompt
    /\ IF prompt \notin DOMAIN forwarders
       THEN /\ Step("ui", "deleteOK", "", "")
            /\ UNCHANGED <<forwarders, pf, table>>
       ELSE /\ pf' = Stop(forwarders[prompt])
            /\ forwarders' = MapDelete(forwarders, prompt)
            /\ table' \in hydrate(forwarders')
            /\ Step("ui", "deleteOK", "Deleted", "")
    /\ UNCHANGED <<queue, dialog, cur, bench, bs, timers, benchCfg, cstate, cluster, watch, podv>>

\* the Cancel button of the delete modal
deleteCancel ==
    /\ cur # 0 /\ prompt # NoPrompt
    /\ prompt' = NoPrompt
    /\ Step("ui", "deleteCancel", "", "")
    /\ UNCHANGED <<forwarders, pf, queue, dialog, cur, table,
                   bench, bs, timers, benchCfg, cstate, cluster, watch, podv>>

----------------------------------------------------------------------------
(* Benchmarks *)

Started == { b \in Benchmarks : bs[b].pc # "new" }
FreeBench == IF Started = Benchmarks THEN 0 ELSE Cardinality(Started) + 1

\* newBenchmark(base, cfg): the value assigned to v.bench
newBenchmark(ok, b) == IF ok THEN b ELSE 0

\* benchmark.cancel()
cancel(b) == [bs EXCEPT ![b].canceled = TRUE]

\* benchmark.run(cluster, done) calls done on this way out of the load generator
runCallsDone(exit) == exit \in {"completed", "canceled", "failed"}

\* the config benchCmd hands to newBenchmark for selection sel, container co
benchCmdConfig(sel, co) ==
    IF containerID(sel, co) \in DOMAIN benchCfg.Containers
    THEN benchCfg.Containers[containerID(sel, co)]
    ELSE defaultConfig

\* benchCmd without the v.bench != nil check
benchCmdNoGuard(r, ok) ==
    /\ cur # 0 /\ prompt = NoPrompt
    /\ LET sel == getSelectedItem(r) IN
       IF sel = <<>>
       THEN /\ Step("ui", "benchCmd", "", "")
            /\ UNCHANGED <<bench, bs>>
       ELSE IF ~ok
       THEN /\ bench' = [bench EXCEPT ![cur] = newBenchmark(FALSE, 0)]
            /\ Step("ui", "benchCmd", "BenchFailed", "reset")
            /\ UNCHANGED bs
       ELSE /\ FreeBench # 0
            /\ bench' = [bench EXCEPT ![cur] = newBenchmark(TRUE, FreeBench)]
            /\ bs' = [bs EXCEPT ![FreeBench] =
                        [pc |-> "run", canceled |-> FALSE, view |-> cur,
                         cfg |-> benchCmdConfig(sel, table[r].co), name |-> sel]]
            /\ Step("ui", "benchCmd", "", "InProgress")
    /\ UNCHANGED <<forwarders, pf, queue, dialog, cur, table, prompt,
                   timers, benchCfg, cstate, cluster, watch, podv>>

\* forwardView.benchCmd on the selected row r; ok: newBenchmark returned no
\* error. go v.runBenchmark() starts the load generator.
benchCmd(r, ok) ==
    /\ cur # 0 /\ prompt = NoPrompt
    /\ LET sel == getSelectedItem(r) IN
       IF sel = <<>>
       THEN /\ Step("ui", "benchCmd", "", "")
            /\ UNCHANGED <<bench, bs>>
       ELSE IF bench[cur] # 0
       THEN /\ Step("ui", "benchCmd", "OnlyOne", "")
            /\ UNCHANGED <<bench, bs>>
       ELSE IF ~ok
       THEN /\ bench' = [bench EXCEPT ![cur] = newBenchmark(FALSE, 0)]
            /\ Step("ui", "benchCmd", "BenchFailed", "reset")
            /\ UNCHANGED bs
       ELSE /\ FreeBench # 0
            /\ bench' = [bench EXCEPT ![cur] = newBenchmark(TRUE, FreeBench)]
            /\ bs' = [bs EXCEPT ![FreeBench] =
                        [pc |-> "run", canceled |-> FALSE, view |-> cur,
                         cfg |-> benchCmdConfig(sel, table[r].co), name |-> sel]]
            /\ Step("ui", "benchCmd", "", "InProgress")
    /\ UNCHANGED <<forwarders, pf, queue, dialog, cur, table, prompt,
                   timers, benchCfg, cstate, cluster, watch, podv>>

\* benchStopCmd that also empties the slot of the view
benchStopCmdClearSlot ==
    /\ cur # 0 /\ prompt = NoPrompt
    /\ bs' = IF bench[cur] # 0 THEN cancel(bench[cur]) ELSE bs
    /\ bench' = [bench EXCEPT ![cur] = 0]
    /\ Step("ui", "benchStopCmd", "", "reset")
    /\ UNCHANGED <<forwarders, pf, queue, dialog, cur, table, prompt,
                   timers, benchCfg, cstate, cluster, watch, podv>>

\* forwardView.benchStopCmd
benchStopCmd ==
    /\ cur # 0 /\ prompt = NoPrompt
    /\ bs' = IF bench[cur] # 0 THEN cancel(bench[cur]) ELSE bs
    /\ Step("ui", "benchStopCmd", "", "reset")
    /\ UNCHANGED <<forwarders, pf, queue, dialog, cur, table, prompt,
                   bench, timers, benchCfg, cstate, cluster, watch, podv>>

\* forwardView.runBenchmark: the load generator of b is over and run calls
\* the callback, which queues the completion job of its view
runBenchmark(b, exit) ==
    /\ bs[b].pc = "run"
    /\ runCallsDone(exit)
    /\ bs' = [bs EXCEPT ![b].pc = "called"]
    /\ queue' = Append(queue, Job("benchDone", bs[b].view, b))
    /\ Step("gen", "queueBenchDone", "", "")
    /\ UNCHANGED <<forwarders, pf, dialog, cur, table, prompt,
                   bench, timers, benchCfg, cstate, cluster, watch, podv>>

\* <-time.After(2 * time.Second); v.app.QueueUpdate(statusReset)
timerFire ==
    /\ timers > 0
    /\ timers' = timers - 1
    /\ queue' = Append(queue, Job("statusReset", 0, 0))
    /\ Step("timer", "queueStatusReset", "", "")
    /\ UNCHANGED <<forwarders, pf, dialog, cur, table, prompt,
                   bench, bs, benchCfg, cstate, cluster, watch, podv>>

----------------------------------------------------------------------------
(* The benchmark file of the cluster and the goroutine of one watcher:     *)
(* updateBenchConfig                                                       *)

\* the context is switched to cluster c (from the main view)
switchCluster(c) ==
    /\ cur = 0 /\ c # cluster
    /\ cluster' = c
    /\ Step("ui", "switchCluster", "", "")
    /\ UNCHANGED <<forwarders, pf, queue, dialog, cur, table, prompt,
                   bench, bs, timers, benchCfg, cstate, watch, podv>>

\* the watchers whose directory watch delivers events to a running loop
Receivers == { v \in Views : watch[v].pc \in {"l352", "loop"} /\ watch[v].added }

RECURSIVE PendingEvents(_)
PendingEvents(V) ==
    IF V = {} THEN 0
    ELSE LET v == CHOOSE x \in V : TRUE
         IN  Len(watch[v].ev) + PendingEvents(V \ {v})

\* file events not yet received and reload jobs not yet run
Pending ==
    PendingEvents(Views) + Cardinality({ i \in DOMAIN queue : queue[i].kind = "reload" })

\* file f of the watched directory is written: one event for every watcher
fileWrite(f) ==
    /\ Receivers # {}
    /\ Pending + Cardinality(Receivers) <= MaxEvents
    /\ watch' = [v \in Views |->
                    IF v \in Receivers
                    THEN [watch[v] EXCEPT !.ev = Append(watch[v].ev, f)]
                    ELSE watch[v]]
    /\ Step("fs", "fileWrite", "", "")
    /\ UNCHANGED <<forwarders, pf, queue, dialog, cur, table, prompt,
                   bench, bs, timers, benchCfg, cstate, cluster, podv>>

\* file := benchConfig(app.config.K9s.CurrentCluster), before the loop
watchStart(v) ==
    /\ watch[v].pc = "l352"
    /\ watch' = [watch EXCEPT ![v].pc = "loop", ![v].file = benchConfig(cluster)]
    /\ Step("watch", "watchStart", "", "")
    /\ UNCHANGED <<forwarders, pf, queue, dialog, cur, table, prompt,
                   bench, bs, timers, benchCfg, cstate, cluster, podv>>

\* case evt := <-w.Events, whichever other case is ready
watchEvent(v) ==
    /\ watch[v].pc = "loop" /\ watch[v].ev # <<>>
    /\ watch' = [watch EXCEPT ![v].ev = Tail(watch[v].ev)]
    /\ queue' = IF watch[v].file = <<>> \/ Head(watch[v].ev) = watch[v].file
                 THEN Append(queue, Job("reload", v, 0))
                 ELSE queue
    /\ Step("watch", "watchEvent", "", "")
    /\ UNCHANGED <<forwarders, pf, dialog, cur, table, prompt,
                   bench, bs, timers, benchCfg, cstate, cluster, podv>>

\* case err := <-w.Errors: return
watchError(v) ==
    /\ watch[v].pc = "loop"
    /\ watch' = [watch EXCEPT ![v].pc = "exited", ![v].ev = <<>>]
    /\ Step("watch", "watchError", "", "")
    /\ UNCHANGED <<forwarders, pf, queue, dialog, cur, table, prompt,
                   bench, bs, timers, benchCfg, cstate, cluster, podv>>

\* case <-ctx.Done(): w.Close(); return
watchDone(v) ==
    /\ watch[v].pc = "loop" /\ watch[v].canceled
    /\ watch' = [watch EXCEPT ![v].pc = "exited", ![v].closed = TRUE, ![v].ev = <<>>]
    /\ Step("watch", "watchDone", "", "")
    /\ UNCHANGED <<forwarders, pf, queue, dialog, cur, table, prompt,
                   bench, bs, timers, benchCfg, cstate, cluster, podv>>

\* v.app.bench.Reload(path): the file is read into the config, or an error
\* is returned and the config stays as it was
Reload(ok, cfg) == IF ok THEN cfg ELSE benchCfg

----------------------------------------------------------------------------
(* The UI thread runs the queued jobs, oldest first *)

job == queue[1]

\* the job runForward queues first: register, flash, dismissModal
uiRegister ==
    /\ queue # <<>> /\ job.kind = "register"
    /\ queue' = Tail(queue)
    /\ forwarders' = MapPut(forwarders, FQN(job.id), job.id)
    /\ dialog' = IF pf[job.id].here THEN NoDialog ELSE dialog
    /\ Step("ui", "register", "Activated", "")
    /\ UNCHANGED <<pf, cur, table, prompt, bench, bs, timers, benchCfg, cstate, cluster, watch, podv>>

\* the job runForward queues after ForwardPorts returned nil
uiRemove ==
    /\ queue # <<>> /\ job.kind = "remove"
    /\ queue' = Tail(queue)
    /\ forwarders' = MapDelete(forwarders, FQN(job.id))
    /\ pf' = SetActive(job.id, FALSE)
    /\ Step("ui", "remove", "", "")
    /\ UNCHANGED <<dialog, cur, table, prompt, bench, bs, timers, benchCfg, cstate, cluster, watch, podv>>

\* the completion job with v.bench = nil moved into the else branch
uiBenchDoneSkipCanceled ==
    /\ queue # <<>> /\ job.kind = "benchDone"
    /\ queue' = Tail(queue)
    /\ LET v == job.id
           x == bench[v]
           reported == [bs EXCEPT ![job.b].pc = "reported"]
       IN  IF x = 0
           THEN /\ Step("ui", "benchDone", "", "panic")
                /\ bs' = reported
                /\ UNCHANGED <<bench, timers>>
           ELSE /\ Step("ui", "benchDone", "",
                        IF bs[x].canceled THEN "BenchCanceled" ELSE "BenchCompleted")
                /\ bs' = [reported EXCEPT ![x].canceled = TRUE]
                /\ bench' = IF bs[x].canceled THEN bench ELSE [bench EXCEPT ![v] = 0]
                /\ timers' = timers + 1
    /\ UNCHANGED <<forwarders, pf, dialog, cur, table, prompt, benchCfg, cstate, cluster, watch, podv>>

\* the completion job without v.bench = nil
uiBenchDoneKeepSlot ==
    /\ queue # <<>> /\ job.kind = "benchDone"
    /\ queue' = Tail(queue)
    /\ LET v == job.id
           x == bench[v]
           reported == [bs EXCEPT ![job.b].pc = "reported"]
       IN  IF x = 0
           THEN /\ Step("ui", "benchDone", "", "panic")
                /\ bs' = reported
                /\ UNCHANGED timers
           ELSE /\ Step("ui", "benchDone", "",
                        IF bs[x].canceled THEN "BenchCanceled" ELSE "BenchCompleted")
                /\ bs' = [reported EXCEPT ![x].canceled = TRUE]
                /\ timers' = timers + 1
    /\ UNCHANGED <<forwarders, pf, dialog, cur, table, prompt, benchCfg, bench, cstate, cluster, watch, podv>>

\* the completion job that reports every benchmark as completed
uiBenchDoneAlwaysCompleted ==
    /\ queue # <<>> /\ job.kind = "benchDone"
    /\ queue' = Tail(queue)
    /\ LET v == job.id
           x == bench[v]
           reported == [bs EXCEPT ![job.b].pc = "reported"]
       IN  IF x = 0
           THEN /\ Step("ui", "benchDone", "", "panic")
                /\ bs' = reported
                /\ UNCHANGED <<bench, timers>>
           ELSE /\ Step("ui", "benchDone", "", "BenchCompleted")
                /\ bs' = [reported EXCEPT ![x].canceled = TRUE]
                /\ bench' = [bench EXCEPT ![v] = 0]
                /\ timers' = timers + 1
    /\ UNCHANGED <<forwarders, pf, dialog, cur, table, prompt, benchCfg, cstate, cluster, watch, podv>>

\* the completion job of view job.id, queued by the callback of benchmark job.b
uiBenchDone ==
    /\ queue # <<>> /\ job.kind = "benchDone"
    /\ queue' = Tail(queue)
    /\ LET v == job.id
           x == bench[v]
           reported == [bs EXCEPT ![job.b].pc = "reported"]
       IN  IF x = 0
           THEN \* v.bench.canceled on a nil v.bench
                /\ Step("ui", "benchDone", "", "panic")
                /\ bs' = reported
                /\ UNCHANGED <<bench, timers>>
           ELSE /\ Step("ui", "benchDone", "",
                        IF bs[x].canceled THEN "BenchCanceled" ELSE "BenchCompleted")
                /\ bs' = [reported EXCEPT ![x].canceled = TRUE]
                /\ bench' = [bench EXCEPT ![v] = 0]
                /\ timers' = timers + 1
    /\ UNCHANGED <<forwarders, pf, dialog, cur, table, prompt, benchCfg, cstate, cluster, watch, podv>>

\* the reload job whose failed Reload leaves the defaults zeroed
uiReloadClobber(ok, cfg) ==
    /\ queue # <<>> /\ job.kind = "reload"
    /\ queue' = Tail(queue)
    /\ benchCfg' = IF ok THEN cfg
                   ELSE [benchCfg EXCEPT !.Defaults = [C |-> 0, N |-> 0]]
    /\ UNCHANGED <<forwarders, pf>>
    /\ table' \in IF job.id = cur THEN hydrate(forwarders)' ELSE {table}
    /\ Step("ui", "reload", IF ok THEN "" ELSE "ReloadErr", "")
    /\ UNCHANGED <<dialog, cur, prompt, bench, bs, timers, cstate, cluster, watch, podv>>

\* the job updateBenchConfig queues: forwardView.reload of view job.id; ok:
\* Reload returned no error, cfg: the content of the file
uiReload(ok, cfg) ==
    /\ queue # <<>> /\ job.kind = "reload"
    /\ queue' = Tail(queue)
    /\ benchCfg' = Reload(ok, cfg)
    /\ UNCHANGED <<forwarders, pf>>
    /\ table' \in IF job.id = cur THEN hydrate(forwarders)' ELSE {table}
    /\ Step("ui", "reload", IF ok THEN "" ELSE "ReloadErr", "")
    /\ UNCHANGED <<dialog, cur, prompt, bench, bs, timers, cstate, cluster, watch, podv>>

\* v.app.statusReset(), queued by the timer goroutine
uiStatusReset ==
    /\ queue # <<>> /\ job.kind = "statusReset"
    /\ queue' = Tail(queue)
    /\ Step("ui", "statusReset", "", "reset")
    /\ UNCHANGED <<forwarders, pf, dialog, cur, table, prompt,
                   bench, bs, timers, benchCfg, cstate, cluster, watch, podv>>

----------------------------------------------------------------------------
ContainerNext ==
    \/ \E co \in Containers, st \in ContainerStates : containerUpdate(co, st)
    \/ \E co \in Containers \cup {""} : portFwdCmd(co)
    \/ \E ok \in BOOLEAN : portForward(ok)
    \/ dialogCancel

PodNext ==
    \/ \E ok \in BOOLEAN : listContainers(ok)
    \/ exitFn

ForwardKeys ==
    \/ backCmd
    \/ \E col \in {SortPorts, SortURL} : sortColCmd(col)
    \/ \E r \in Selections : deleteCmd(r)
    \/ deleteOK
    \/ deleteCancel

TransportNext ==
    \/ \E s \in Sessions : runForwardQueue(s)
    \/ \E s \in Sessions : runForwardSetActive(s)
    \/ \E s \in Sessions : runForwardErr(s)
    \/ \E s \in Sessions : runForwardNil(s)
    \/ uiRegister
    \/ uiRemove

BenchNext ==
    \/ \E r \in Selections, ok \in BOOLEAN : benchCmd(r, ok)
    \/ benchStopCmd
    \/ \E b \in Benchmarks, exit \in {"completed", "canceled", "failed"} : runBenchmark(b, exit)
    \/ timerFire
    \/ uiBenchDone
    \/ uiStatusReset

WatchNext ==
    \/ \E c \in Clusters : switchCluster(c)
    \/ \E f \in Files : fileWrite(f)
    \/ \E v \in Views : watchStart(v)
    \/ \E v \in Views : watchEvent(v)
    \/ \E v \in Views : watchError(v)
    \/ \E v \in Views : watchDone(v)
    \/ \E ok \in BOOLEAN, cfg \in BenchConfigs : uiReload(ok, cfg)

ForwardNext ==
    \/ \E wok \in {"ok", "newErr", "addErr"} : gotoForwards(wok)
    \/ ForwardKeys

Next ==
    ContainerNext \/ PodNext \/ ForwardNext \/ TransportNext \/ BenchNext \/ WatchNext

(* Without hot reload: fsnotify.NewWatcher fails, no watcher goroutine runs *)
ForwardNoWatch == gotoForwards("newErr") \/ ForwardKeys

Spec == Init /\ [][Next]_vars

(* The forwards alone: no benchmark is started *)
FwdNext == ContainerNext \/ ForwardNoWatch \/ TransportNext

FwdInit == Init /\ benchCfg.Containers = (Key1 :> Override1) /\ benchCfg.Defaults.C = 10

FwdSpec == FwdInit /\ [][FwdNext]_vars

(* The benchmarks alone, from the state in which the forward of container  *)
(* c1 is registered and its transport is live (FwdNext reaches it from     *)
(* Init by portFwdCmd, portForward, runForwardQueue, runForwardSetActive,  *)
(* uiRegister); no forward starts or ends.                                 *)
BenchInit ==
    /\ pf = [s \in Sessions |->
               IF s = 1 THEN [NewPortForward(Pod, "c1") EXCEPT !.active = TRUE, !.pc = "l211"]
               ELSE NoSession]
    /\ forwarders = (fwFQN(Pod, "c1") :> 1)
    /\ queue = <<>>
    /\ dialog = NoDialog
    /\ cur = 0
    /\ table = <<>>
    /\ prompt = NoPrompt
    /\ bench = [v \in Views |-> 0]
    /\ bs = [b \in Benchmarks |-> NoBenchmark]
    /\ timers = 0
    /\ benchCfg \in BenchConfigs
    /\ cstate = [co \in Containers |-> "Running"]
    /\ cluster = "A"
    /\ watch = [v \in Views |-> NoWatch]
    /\ podv = PodContainers
    /\ last = [thr |-> "ui", op |-> "register", flash |-> "Activated", status |-> "",
               sort |-> 0]

BenchOnlyNext ==
    \/ gotoForwards("newErr")
    \/ backCmd
    \/ \E col \in {SortPorts, SortURL} : sortColCmd(col)
    \/ BenchNext

BenchSpec == BenchInit /\ [][BenchOnlyNext]_vars

(* Every load generator ends (its request budget is finite, or it is        *)
(* cancelled), every timer fires, and the UI thread keeps running the jobs *)
(* of its queue.                                                           *)
BenchFairness ==
    /\ \A b \in Benchmarks :
          WF_vars(\E exit \in {"completed", "canceled", "failed"} : runBenchmark(b, exit))
    /\ WF_vars(timerFire)
    /\ WF_vars(uiBenchDone)
    /\ WF_vars(uiStatusReset)

FairBenchSpec == BenchSpec /\ BenchFairness

(* Hot reload alone: the forward of container c1 is registered, as in      *)
(* BenchInit; forwards views are opened and left, the cluster is switched, *)
(* the benchmark files are written.                                        *)
WatchOnlyNext ==
    \/ \E wok \in {"ok", "newErr", "addErr"} : gotoForwards(wok)
    \/ backCmd
    \/ \E col \in {SortPorts, SortURL} : sortColCmd(col)
    \/ WatchNext

WatchSpec == BenchInit /\ [][WatchOnlyNext]_vars

(* Every watcher goroutine that can take a step eventually takes one *)
WatchFairness ==
    \A v \in Views : WF_vars(watchStart(v)) /\ WF_vars(watchDone(v))

FairWatchSpec == WatchSpec /\ WatchFairness

(* Reloads alone: one cluster, every watcher is set up and no watcher fails *)
ReloadNext ==
    \/ gotoForwards("ok")
    \/ backCmd
    \/ \E f \in Files : fileWrite(f)
    \/ \E v \in Views : watchStart(v)
    \/ \E v \in Views : watchEvent(v)
    \/ \E v \in Views : watchDone(v)
    \/ \E ok \in BOOLEAN, cfg \in BenchConfigs : uiReload(ok, cfg)

ReloadSpec == BenchInit /\ [][ReloadNext]_vars

(* Deleting forwards: the forwards of the containers c1 and c2 are          *)
(* registered, their transports are live and the main view is shown again *)
(* after a visit of the forwards view (FwdNext reaches this state from     *)
(* Init); no forward starts, the transports end by themselves or by a      *)
(* delete.                                                                 *)
StopInit ==
    /\ pf = [s \in Sessions |->
               IF s = 1 THEN [NewPortForward(Pod, "c1") EXCEPT !.active = TRUE, !.pc = "l211", !.here = FALSE]
               ELSE IF s = 2 THEN [NewPortForward(Pod, "c2") EXCEPT !.active = TRUE, !.pc = "l211", !.here = FALSE]
               ELSE NoSession]
    /\ forwarders = (fwFQN(Pod, "c1") :> 1) @@ (fwFQN(Pod, "c2") :> 2)
    /\ queue = <<>>
    /\ dialog = NoDialog
    /\ cur = 0
    /\ table = <<>>
    /\ prompt = NoPrompt
    /\ bench = [v \in Views |-> 0]
    /\ bs = [b \in Benchmarks |-> NoBenchmark]
    /\ timers = 0
    /\ benchCfg \in BenchConfigs
    /\ cstate = [co \in Containers |-> "Running"]
    /\ cluster = "A"
    /\ watch = [v \in Views |-> NoWatch]
    /\ podv = PodContainers
    /\ last = [thr |-> "ui", op |-> "backCmd", flash |-> "", status |-> "", sort |-> 0]

StopNext ==
    \/ ForwardNoWatch
    \/ \E s \in Sessions : runForwardErr(s)
    \/ \E s \in Sessions : runForwardNil(s)
    \/ uiRemove

StopSpec == StopInit /\ [][StopNext]_vars

(* The pod view and its container view: the forwards are started and       *)
(* registered, their transports stay up                                    *)
PodViewNext ==
    \/ ContainerNext
    \/ PodNext
    \/ gotoForwards("newErr")
    \/ backCmd
    \/ \E s \in Sessions : runForwardQueue(s)
    \/ uiRegister

PodSpec == FwdInit /\ [][PodViewNext]_vars

----------------------------------------------------------------------------
(* Port-forward sessions: C1, C2, C3, C8, C9 (checked under FwdSpec) *)

\* the transport of s is up: runForward is inside f.ForwardPorts() and nobody stopped it
TransportLive(s) == pf[s].pc = "l211" /\ ~pf[s].stopped

Registered(s) == FQN(s) \in DOMAIN forwarders /\ forwarders[FQN(s)] = s

\* C1: registry uniqueness: no two sessions whose transports are up share an fqn
C1_RegistryUniqueness ==
    \A s, u \in Sessions :
        (s # u /\ TransportLive(s) /\ TransportLive(u)) => FQN(s) # FQN(u)

\* C2: transport failure: a session whose ForwardPorts returned an error (and
\* whose goroutine is over) is not left in the registry marked active
C2_TransportFailureRemoves ==
    \A s \in Sessions :
        (pf[s].pc = "done" /\ pf[s].ret = "err") => ~(Registered(s) /\ pf[s].active)

\* C3: Start-then-List: the step in which portForward starts a session leaves
\* it registered and inactive
C3_StartThenList ==
    [][\A s \in Sessions :
          (pf[s].pc = "new" /\ pf'[s].pc # "new") =>
              /\ fwFQN(pf'[s].path, pf'[s].co) \in DOMAIN forwarders'
              /\ forwarders'[fwFQN(pf'[s].path, pf'[s].co)] = s
              /\ ~pf'[s].active]_vars

\* C8: dispatcher discipline: every step that writes the registry, an active
\* flag, a benchmark slot, a flash message or the status line is a step of the
\* UI thread
C8_DispatcherDiscipline ==
    [][(\/ forwarders' # forwarders
        \/ \E s \in Sessions : pf'[s].active # pf[s].active
        \/ bench' # bench
        \/ last'.flash # ""
        \/ last'.status # "") => last'.thr = "ui"]_vars

\* C9: session state machine: once a session is Stopped (operator delete) or
\* Failed (transport returned), its active flag never becomes true again
C9_TerminalStaysInactive ==
    [][\A s \in Sessions :
          ((pf[s].stopped \/ pf[s].pc = "done") /\ ~pf[s].active) => ~pf'[s].active]_vars

----------------------------------------------------------------------------
(* Benchmarks: C4, C5, C6, C7, C10 (checked under BenchSpec) *)

Running == { b \in Benchmarks : bs[b].pc = "run" }

\* C4: single-flight: at most one benchmark is Running in the whole process
C4_SingleFlight == Cardinality(Running) <= 1

\* the merge rule: defaults d, each field replaced by a non-zero override field
Merge(d, overrides, id) ==
    IF id \notin DOMAIN overrides THEN [C |-> d.C, N |-> d.N]
    ELSE [C |-> IF overrides[id].C # 0 THEN overrides[id].C ELSE d.C,
          N |-> IF overrides[id].N # 0 THEN overrides[id].N ELSE d.N]

\* C10: the step in which benchCmd starts benchmark b hands it the loaded
\* defaults merged with the override of the selected session's container
\* (bs[b].name is that session's path "|" container)
C10_EffectiveConfig ==
    [][\A b \in Benchmarks :
          (bs[b].pc = "new" /\ bs'[b].pc = "run") =>
              LET want == Merge(benchCfg.Defaults, benchCfg.Containers, bs'[b].name)
              IN  bs'[b].cfg.C = want.C /\ bs'[b].cfg.N = want.N]_vars

\* a benchmark started from the view shown has neither been cancelled nor finished
Unfinished(b) == bs[b].view = cur /\ bs[b].pc = "run" /\ ~bs[b].canceled

\* C5 as claimed: once every benchmark of the view has been cancelled or has
\* finished, a Run on a selected row is not rejected with the only-one error
C5_RunAfterCancel ==
    [][\A r \in Selections, ok \in BOOLEAN :
          (/\ benchCmd(r, ok)
           /\ getSelectedItem(r) # <<>>
           /\ \A b \in Benchmarks : ~Unfinished(b)) => last'.flash # "OnlyOne"]_vars

\* C5, amended: a benchmark whose completion job has run is in no slot; a Run
\* is rejected only while the slot of its view holds a benchmark whose
\* completion job has not run yet; Cancel sets the canceled flag of the
\* benchmark in the slot and leaves the slot as it is
C5_RunAfterCompletionJob ==
    [][/\ \A b \in Benchmarks :
            bs'[b].pc = "reported" => \A v \in Views : bench'[v] # b
       /\ \A r \in Selections, ok \in BOOLEAN :
            (benchCmd(r, ok) /\ last'.flash = "OnlyOne") =>
                (bench[cur] # 0 /\ bs[bench[cur]].pc \in {"run", "called"})
       /\ (benchStopCmd /\ bench[cur] # 0) =>
                (bs'[bench[cur]].canceled /\ bench' = bench)]_vars

\* a Run has just started in a view whose earlier benchmark was reported
C5_Witness ==
    /\ last.op = "benchCmd" /\ last.status = "InProgress"
    /\ \E b \in Benchmarks : bs[b].pc = "reported" /\ bs[b].view = cur

\* C6: a Run on a selected row while the slot of the view is occupied reports
\* the only-one error and changes neither the slot, nor any benchmark (its
\* configuration included), nor the queue, nor anything else
C6_RejectedRunNoEffect ==
    [][\A r \in Selections, ok \in BOOLEAN :
          (benchCmd(r, ok) /\ getSelectedItem(r) # <<>> /\ bench[cur] # 0) =>
              /\ last'.flash = "OnlyOne"
              /\ UNCHANGED <<bench, bs, queue, timers, benchCfg, forwarders, pf,
                             table, cur, prompt, dialog, cstate, cluster, watch, podv>>]_vars

\* a Run has just been rejected while a load generator is at work
C6_Witness ==
    /\ last.op = "benchCmd" /\ last.flash = "OnlyOne"
    /\ cur # 0 /\ bench[cur] # 0 /\ bs[bench[cur]].pc = "run"

\* C7: under fair scheduling an occupied slot is eventually empty
C7_SlotNeverStuck == \A v \in Views : (bench[v] # 0) ~> (bench[v] = 0)

\* a completion job has just emptied the slot of its view
C7_Witness ==
    /\ last.op = "benchDone"
    /\ \E b \in Benchmarks : bs[b].pc = "reported" /\ bench[bs[b].view] = 0

----------------------------------------------------------------------------
(* The forwards table and the benchmark configuration: C11 (StopSpec), C12  *)
(* (BenchSpec)                                                             *)

\* the override maps and defaults over which loadConfig is evaluated
SomeOverrides ==
    { <<>> } \cup
    { k :> [C |-> c, N |-> n, M |-> ""] : k \in {Key1, Key2}, c \in {0, 5}, n \in {0, 50} }

SomeDefaults == {1, 10, 200}

\* the step builds the table of the view shown: tv.update(v.hydrate())
Hydrates ==
    \/ last'.op \in {"gotoForwards", "sortColCmd"}
    \/ last'.op = "deleteOK" /\ last'.flash = "Deleted"
    \/ last'.op = "reload" /\ queue # <<>> /\ job.id = cur

\* C11: whenever the forwards table is built, loadConfig returns the
\* defaults when the id has no override, and otherwise each non-zero override
\* field in place of the default, and the C and N cells of every row are
\* these values for the loaded defaults and overrides and the row's
\* path "|" container
C11_LoadConfigMerge ==
    [][Hydrates =>
          /\ \A dc \in SomeDefaults, dn \in SomeDefaults, id \in {Key1, Key2},
                cc \in SomeOverrides :
                LET want == Merge([C |-> dc, N |-> dn], cc, id)
                IN  loadConfig(dc, dn, id, cc) = <<want.C, want.N>>
          /\ \A p \in DOMAIN table' :
                LET row == table'[p]
                    want == Merge(benchCfg'.Defaults, benchCfg'.Containers,
                                  containerID(fqn(row.ns, row.na), row.co))
                IN  row.c = want.C /\ row.n = want.N]_vars

\* the table has just been built and shows a row whose override leaves C to
\* the default and sets N
C11_Witness ==
    /\ cur # 0 /\ last.op \in {"gotoForwards", "sortColCmd", "deleteOK"}
    /\ \E p \in DOMAIN table :
          LET id == containerID(fqn(table[p].ns, table[p].na), table[p].co)
          IN  /\ id \in DOMAIN benchCfg.Containers
              /\ benchCfg.Containers[id].C = 0 /\ benchCfg.Containers[id].N # 0
              /\ table[p].c = benchCfg.Defaults.C
              /\ table[p].n = benchCfg.Containers[id].N
              /\ table[p].n # benchCfg.Defaults.N

\* C12: when the session of the selected row has an override under
\* path "|" container (the key hydrate uses), the benchmark that Run starts on
\* that row runs with the non-zero C and N of that override, which are the
\* values its row displays
C12_OverrideKey ==
    [][\A r \in DOMAIN table, b \in Benchmarks :
          (/\ benchCmd(r, TRUE)
           /\ bs[b].pc = "new" /\ bs'[b].pc = "run"
           /\ containerID(fqn(table[r].ns, table[r].na), table[r].co)
                  \in DOMAIN benchCfg.Containers) =>
              LET o == benchCfg.Containers[containerID(fqn(table[r].ns, table[r].na),
                                                       table[r].co)]
              IN  /\ o.C # 0 => (bs'[b].cfg.C = o.C /\ table[r].c = o.C)
                  /\ o.N # 0 => (bs'[b].cfg.N = o.N /\ table[r].n = o.N)]_vars

----------------------------------------------------------------------------
(* The forwards table and the registry: C13 (FwdSpec), C14 (StopSpec) *)

\* C13: every step that shows the forwards view or refreshes it (v.refresh():
\* tv.update(v.hydrate())) leaves a table with as many rows as the registry
\* has entries
C13_ListCompleteness ==
    [][last'.op \in {"gotoForwards", "sortColCmd"} =>
          Cardinality(DOMAIN table') = Cardinality(DOMAIN forwarders')]_vars

\* C14: the OK button of the delete modal for fqn f (prompt = f): when f is
\* registered, the registered session is stopped, the entry of f is removed
\* and every other entry and session stays as it was; when f is not
\* registered, nothing fails and registry and sessions stay as they were
C14_StopFrame ==
    [][(last'.op = "deleteOK" /\ prompt # NoPrompt) =>
          IF prompt \in DOMAIN forwarders
          THEN /\ pf'[forwarders[prompt]].stopped
               /\ ~pf'[forwarders[prompt]].active
               /\ DOMAIN forwarders' = DOMAIN forwarders \ {prompt}
               /\ \A k \in DOMAIN forwarders' : forwarders'[k] = forwarders[k]
               /\ \A s \in Sessions : s # forwarders[prompt] => pf'[s] = pf[s]
          ELSE /\ forwarders' = forwarders
               /\ pf' = pf
               /\ last'.flash = ""]_vars

\* a delete has just removed one of the two registered forwards
C14_Witness ==
    /\ last.op = "deleteOK" /\ last.flash = "Deleted"
    /\ Cardinality(DOMAIN forwarders) = 1
    /\ \E s \in Sessions : pf[s].stopped /\ FQN(s) \notin DOMAIN forwarders
    /\ \E s \in Sessions : ~pf[s].stopped /\ Registered(s)

\* a confirmed delete has just found its fqn missing from the registry
C14_MissingDeleted ==
    /\ last.op = "deleteOK" /\ last.flash = ""
    /\ \E s \in Sessions : pf[s].pc = "done" /\ ~pf[s].stopped

----------------------------------------------------------------------------
(* The config watcher: C15, C16, C17 (WatchSpec, FairWatchSpec), C18       *)
(* (ReloadSpec)                                                            *)

\* the watch loop of view v takes an event off w.Events in this step
Receives(v) ==
    /\ last'.op = "watchEvent"
    /\ watch[v].pc = "loop" /\ watch[v].ev # <<>>
    /\ watch'[v].ev = Tail(watch[v].ev)
    /\ \A u \in Views : u # v => watch'[u] = watch[u]

\* C15: for every file event, the watch loop queues a reload job exactly when
\* the event's path is the benchmark file of the cluster that is selected at
\* that time (stated for the events received right after the write, so that
\* the cluster is the same when the file is written and when the loop
\* compares)
C15_ClusterTracking ==
    [][\A v \in Views :
          (Receives(v) /\ last.op = "fileWrite" /\ Len(watch[v].ev) = 1) =>
              IF Head(watch[v].ev) = benchConfig(cluster)
              THEN queue' = Append(queue, Job("reload", v, 0))
              ELSE queue' = queue]_vars

\* C16: once the context of a view is canceled, its watch loop queues no
\* reload job and no reload job of that view runs
C16_NoMutationAfterCancel ==
    [][/\ \A v \in Views :
            (Receives(v) /\ watch[v].canceled) => queue' = queue
       /\ (last'.op = "reload" /\ queue # <<>>) => ~watch[job.id].canceled]_vars

\* C17: a watch loop whose context is canceled eventually exits, and a loop
\* that has exited has closed its fsnotify watcher
C17_LoopTerminates ==
    /\ \A v \in Views :
          (watch[v].pc \in {"l352", "loop"} /\ watch[v].canceled)
              ~> (watch[v].pc \notin {"l352", "loop"})
    /\ [](\A v \in Views : watch[v].pc = "exited" => watch[v].closed)

\* C18: a reload job whose Reload fails flashes the error on the UI thread
\* and leaves the loaded config and every watch loop as they were; a loop
\* that receives an event for its file queues a reload job, whatever the
\* outcome of earlier reloads
C18_ReloadFailure ==
    [][/\ uiReload(FALSE, benchCfg) =>
            /\ last'.flash = "ReloadErr" /\ last'.thr = "ui"
            /\ benchCfg' = benchCfg
            /\ watch' = watch
       /\ \A v \in Views :
            (Receives(v) /\ Head(watch[v].ev) = watch[v].file) =>
                queue' = Append(queue, Job("reload", v, 0))]_vars

\* a reload has just failed while the loop of the view shown is running and
\* holds another event for its file
C18_Witness ==
    /\ last.op = "reload" /\ last.flash = "ReloadErr"
    /\ cur # 0 /\ watch[cur].pc = "loop" /\ ~watch[cur].canceled
    /\ watch[cur].ev # <<>> /\ Head(watch[cur].ev) = watch[cur].file

----------------------------------------------------------------------------
(* Starting a forward: C19 (FwdSpec) *)

\* C19: a port-forward request on a container whose STATE is not Running is
\* rejected with an error and opens no form, starts no session and leaves
\* the registry unchanged; every step that starts a session (pf.Start) does
\* so for a container whose STATE is Running
C19_InvalidStateGuard ==
    [][/\ \A co \in Containers :
            (portFwdCmd(co) /\ cstate[co] # "Running") =>
                /\ last'.flash # ""
                /\ dialog' = NoDialog
                /\ UNCHANGED <<pf, forwarders, queue>>
       /\ \A s \in Sessions :
            (pf[s].pc = "new" /\ pf'[s].pc # "new") =>
                cstate[pf'[s].co] = "Running"]_vars

----------------------------------------------------------------------------
(* The completion job: C20 (BenchSpec) *)

\* C20: the completion job of benchmark b finds b in the slot of its view,
\* reports canceled if Cancel was requested for b and completed otherwise,
\* and empties the slot; the canceled flag of a benchmark not yet reported
\* is set by Cancel (benchStopCmd on the view whose slot holds it) only
C20_CompletionOutcome ==
    [][/\ (last'.op = "benchDone" /\ queue # <<>>) =>
            /\ bench[job.id] = job.b
            /\ last'.status = (IF bs[job.b].canceled THEN "BenchCanceled"
                                                     ELSE "BenchCompleted")
            /\ bench'[job.id] = 0
       /\ \A b \in Benchmarks :
            (~bs[b].canceled /\ bs'[b].canceled /\ last'.op # "benchDone") =>
                (last'.op = "benchStopCmd" /\ bench[cur] = b)]_vars

\* a completion job has just reported a cancelled benchmark
C20_Witness ==
    /\ last.op = "benchDone" /\ last.status = "BenchCanceled"
    /\ \E b \in Benchmarks : bs[b].pc = "reported" /\ bench[bs[b].view] = 0

----------------------------------------------------------------------------
(* The forwards table: C21, C22 (StopSpec); the registry: C23 (FwdSpec);   *)
(* the benchmark slot: C24 (BenchSpec); the pod view: C25, C26 (PodSpec)   *)

\* C21: every sort command of the forwards view sets sortCol.index to
\* nameColIndex() plus its constant, and with that one base index 'Sort
\* Ports' selects the PORTS column and 'Sort URL' the URL column of the
\* header.
C21_SortOneBase ==
    [][\A col \in {SortPorts, SortURL} :
         sortColCmd(col) =>
            /\ last'.sort = nameColIndex + col
            /\ ColumnAt(last'.sort) = IF col = SortPorts THEN "PORTS" ELSE "URL"]_vars

\* the fields of a row of the forwards table
Fields(row) == <<row.ns, row.na, row.co, row.c, row.n>>

\* C22: when the forwards table is refreshed, a row has action New exactly
\* when its key was absent from the table before the refresh, and a row
\* that was there with the same fields is Unchanged.
C22_RowAction ==
    [][(\E col \in {SortPorts, SortURL} : sortColCmd(col)) =>
         \A p \in DOMAIN table' :
            /\ (table'[p].action = "New") <=> (p \notin DOMAIN table)
            /\ (p \in DOMAIN table /\ Fields(table'[p]) = Fields(table[p]))
                  => table'[p].action = "Unchanged"]_vars

\* C23: the termination job of a session removes no registry entry that
\* belongs to another session.
C23_NoCrossSessionRemoval ==
    [][uiRemove =>
         \A k \in DOMAIN forwarders :
            forwarders[k] # job.id => k \in DOMAIN forwarders']_vars

\* C24: every queued completion job finds, in the slot of its view, the
\* benchmark whose load generator queued it, and so does every load
\* generator that has still to queue its job: the slot is neither empty nor
\* taken by a later benchmark when the job runs.
C24_JobSeesOwnSession ==
    /\ \A i \in DOMAIN queue :
          queue[i].kind = "benchDone" =>
             queue[i].b # 0 /\ bench[queue[i].id] = queue[i].b
    /\ \A b \in Benchmarks :
          bs[b].pc \in {"run", "called"} => bench[bs[b].view] = b

\* the completion job of a cancelled benchmark is next on the UI thread,
\* just after a start in its view was rejected
C24_Witness ==
    /\ queue # <<>> /\ job.kind = "benchDone"
    /\ bench[job.id] = job.b /\ bs[job.b].canceled
    /\ last.op = "benchCmd" /\ last.flash = "OnlyOne"

\* C25: listContainers stops the pod updater and starts the container view
\* under a context derived from the parent context, with no earlier child
\* context left live; exitFn cancels the child context and restarts the
\* pod updates; the pod updater and a container view updater are never live
\* together; a child context goes dead only by exitFn or with its parent,
\* and is dead whenever the container page is not shown.
C25_HandOver ==
    [][/\ (last'.op = "listContainers" /\ last'.flash = "") =>
            /\ ~podv.child /\ podv.upd
            /\ ~podv'.upd /\ podv'.child /\ podv'.parent
       /\ last'.op = "exitFn" =>
            /\ podv.child
            /\ ~podv'.child /\ podv'.upd
       /\ ~(podv'.upd /\ podv'.child)
       /\ (podv.child /\ ~podv'.child) => (last'.op = "exitFn" \/ ~podv'.parent)
       /\ podv'.child => (podv'.page = "containers" /\ podv'.parent)]_vars

\* the container list was opened again after an exit, with a forward
\* registered from the first container view
C25_Witness ==
    /\ last.op = "listContainers" /\ last.flash = ""
    /\ podv.page = "containers" /\ podv.child /\ ~podv.upd
    /\ forwarders # <<>>

\* C26: when pf.Start fails on the OK button of the form, the error is
\* flashed, no session and no goroutine are created, no job is queued and
\* the registry stays as it was.
C26_FailedStartNoEffect ==
    [][/\ portForward(FALSE) => last'.flash = "StartErr"
       /\ (last'.op = "portForward" /\ last'.flash = "StartErr") =>
            /\ UNCHANGED <<pf, queue, forwarders>>
            /\ Created' = Created]_vars

\* a failed Start, with a forward registered and the registration job of
\* another one queued
C26_Witness ==
    /\ last.op = "portForward" /\ last.flash = "StartErr"
    /\ forwarders # <<>> /\ queue # <<>>
    /\ dialog # NoDialog

====
